---- MODULE Spec2Model ----
(***************************************************************************)
(* Model of streamlit_app.py: one Streamlit script run is a sequential     *)
(* process (pc) that loads the CSV, filters it by the two sidebar          *)
(* thresholds, formats it for display, captures the user's row selection,  *)
(* centres the map and enriches every selected row with a reverse-geocoded *)
(* address and an average rating.  Every user interaction reruns the       *)
(* script from the top in a fresh namespace.                               *)
(*                                                                         *)
(* Python values whose type the script changes (listing id, price,         *)
(* location) are records [t, n, frac, s]: t is the Python type, n the      *)
(* integer (part), frac the decimal digits of a float, s the characters of *)
(* a str.  Strings are sequences of one-character strings.                 *)
(***************************************************************************)
EXTENDS Integers, Sequences, FiniteSets, TLC

VARIABLES
    csv,          \* content of WK1_Airbnb_Amsterdam_listings_proj_solution.csv
    max_budget,   \* sidebar widget value (line 91)
    max_distance, \* sidebar widget value (line 93)
    pc,           \* position of the running script
    dataframe,    \* module-level variable `dataframe`
    selection,    \* module-level variable `selection` (line 151)
    center,       \* map centre given to fig.update_geos (line 168)
    addresses,    \* local list of getLocationDisplayNameByDF (line 31)
    r,            \* its loop variable (line 32)
    location,     \* local `location` of getLocationDisplayNameByDF (line 36)
    sent,         \* listing ids passed to api.get_reviews in this run (line 50)
    written,      \* what st.write shows under "Your selection location:" (174/176)
    error,        \* the uncaught exception that ended the run, or "none"
    earlier,      \* history: the thresholds of the run before this one
    rt_pc,        \* position of an isolated get_airbnb_rating call
    rt_id,        \* its listing_id argument
    rt_reply,     \* what api.get_reviews answers
    rt_out        \* its outcome

vars == <<csv, max_budget, max_distance, pc, dataframe, selection, center,
          addresses, r, location, sent, written, error, earlier, rt_pc, rt_id,
          rt_reply, rt_out>>

----------------------------------------------------------------------------
(* Bounds *)

\* longest CSV table
MaxRows == 3
\* longest review list the review service returns in an isolated call
MaxReviews == 3

(* Program constants *)

DefaultBudget == 100
DefaultDistance == 1000

----------------------------------------------------------------------------
(* Python values and conversions *)

None == [t |-> "NoneType", n |-> 0, frac |-> <<>>, s |-> <<>>]
PyInt(k) == [t |-> "int", n |-> k, frac |-> <<>>, s |-> <<>>]
PyFloat(k, f) == [t |-> "float", n |-> k, frac |-> f, s |-> <<>>]
PyStr(chars) == [t |-> "str", n |-> 0, frac |-> <<>>, s |-> chars]

DigitChars == <<"0", "1", "2", "3", "4", "5", "6", "7", "8", "9">>
IsDigit(c) == \E d \in 1..10 : DigitChars[d] = c
DigitValue(c) == (CHOOSE d \in 1..10 : DigitChars[d] = c) - 1

RECURSIVE Digits(_)
\* decimal digits of a non-negative integer, as str() prints them
Digits(k) == IF k < 10 THEN <<DigitChars[k + 1]>>
             ELSE Append(Digits(k \div 10), DigitChars[(k % 10) + 1])

\* str(x) for ints, floats below 1e16 with a short repr, and strs
str(x) == CASE x.t = "int" -> Digits(x.n)
            [] x.t = "float" -> Digits(x.n) \o <<".">> \o
                                (IF x.frac = <<>> THEN <<"0">> ELSE x.frac)
            [] x.t = "str" -> x.s
            [] OTHER -> <<"N", "o", "n", "e">>

\* s.replace(old, "") for a one-character old
replace(chars, old) == SelectSeq(chars, LAMBDA c : c # old)

RECURSIVE DigitsToInt(_)
DigitsToInt(chars) == IF chars = <<>> THEN 0
                      ELSE 10 * DigitsToInt(SubSeq(chars, 1, Len(chars) - 1))
                           + DigitValue(chars[Len(chars)])

\* int(s): the value, or ValueError when s is empty or holds a non-digit
IntParses(chars) == chars # <<>> /\ \A i \in 1..Len(chars) : IsDigit(chars[i])

\* Series.astype(int) on one value: floats are truncated
astype_int(x) == PyInt(x.n)

----------------------------------------------------------------------------
(* The CSV file *)

\* x <= k for a Python number x and an integer k
le(x, k) == x.n < k \/ (x.n = k /\ \A j \in 1..Len(x.frac) : x.frac[j] = "0")

\* Lines of the file: listing id, price, latitude, longitude, distance, location
\* kind.  Ids are whole or carry decimal digits; prices and kinds are floats.
FileRows ==
    { [id |-> PyFloat(0, <<>>), Price |-> PyFloat(0, <<>>), Latitude |-> 52,
       Longitude |-> 4, Dist |-> 0, Location |-> PyFloat(1, <<>>)],
      [id |-> PyFloat(1, <<>>), Price |-> PyFloat(50, <<>>), Latitude |-> 53,
       Longitude |-> 5, Dist |-> 500, Location |-> PyFloat(0, <<>>)],
      [id |-> PyFloat(2, <<>>), Price |-> PyFloat(150, <<>>), Latitude |-> 54,
       Longitude |-> 6, Dist |-> 500, Location |-> PyFloat(0, <<>>)],
      [id |-> PyFloat(12, <<"3">>), Price |-> PyFloat(100, <<>>), Latitude |-> 55,
       Longitude |-> 7, Dist |-> 1000, Location |-> PyFloat(0, <<>>)],
      [id |-> PyFloat(4, <<>>), Price |-> PyFloat(50, <<>>), Latitude |-> 56,
       Longitude |-> 8, Dist |-> 1020, Location |-> PyFloat(0, <<>>)] }

NoRepeat(rows) == \A i, j \in 1..Len(rows) : rows[i].id = rows[j].id => i = j

\* Files of one to MaxRows lines, listing ids unique (read_csv does not get
\* past an empty file)
Files == { f \in UNION { [1..k -> FileRows] : k \in 1..MaxRows } : NoRepeat(f) }

\* Values the user can give the two number inputs
Budgets == {0, DefaultBudget, 150}
Distances == {500, DefaultDistance}

\* pd.read_csv(names=[...]): one table row per line, labelled 0, 1, ... in the
\* index; the id column is int64 when every id is whole and float64 otherwise
read_csv(file) ==
    LET whole == \A j \in 1..Len(file) : file[j].id.frac = <<>>
    IN  [ i \in 1..Len(file) |->
            [index |-> i - 1,
             id |-> IF whole THEN PyInt(file[i].id.n) ELSE file[i].id,
             Price |-> file[i].Price,
             Latitude |-> file[i].Latitude,
             Longitude |-> file[i].Longitude,
             Dist |-> file[i].Dist,
             Location |-> file[i].Location] ]

----------------------------------------------------------------------------
(* Filter and display formatting, lines 138-149 *)

\* dataframe[dataframe["Price"] <= max_budget]
by_price(df, budget) == SelectSeq(df, LAMBDA row : le(row.Price, budget))

\* dataframe[dataframe["Dist.(m) from loc."] <= max_distance]
by_distance(df, distance) == SelectSeq(df, LAMBDA row : row.Dist <= distance)

\* the thresholds taken as exclusive: < in place of <=
filter_exclusive(df, budget, distance) ==
    SelectSeq(df, LAMBDA row : row.Price.n < budget /\ row.Dist < distance)

filter(df, budget, distance) == by_distance(by_price(df, budget), distance)

ToVisit == PyStr(<<"T", "o", " ", "v", "i", "s", "i", "t">>)
AirbnbListing == PyStr(<<"A", "i", "r", "b", "n", "b", " ",
                         "l", "i", "s", "t", "i", "n", "g">>)

\* POUND + " " + Price.round(2).astype(str), POUND the pound sign
POUND == "pound"
format_price(x) == PyStr(<<POUND, " ">> \o str(x))

\* Location.replace({1.0: "To visit", 0.0: "Airbnb listing"})
replace_location(x) ==
    IF x.t \in {"int", "float"} /\ x.n = 1 /\ le(x, 1) THEN ToVisit
    ELSE IF x.t \in {"int", "float"} /\ x.n = 0 /\ le(x, 0) THEN AirbnbListing
    ELSE x

\* the id column left as read, without astype(int)
format_row_no_astype(row) == [row EXCEPT !.Price = format_price(@),
                                         !.Location = replace_location(@)]

format_row(row) == [row EXCEPT !.id = astype_int(@),
                               !.Price = format_price(@),
                               !.Location = replace_location(@)]

format(df) == [ i \in 1..Len(df) |-> format_row(df[i]) ]

----------------------------------------------------------------------------
(* Selection capture, lines 13-27 *)

RECURSIVE Marked(_, _, _)
\* edited_df[edited_df.Select].drop('Select', axis=1): the rows whose checkbox
\* the user ticked, in table order
Marked(df, marks, i) ==
    IF i > Len(df) THEN <<>>
    ELSE (IF i \in marks THEN <<df[i]>> ELSE <<>>) \o Marked(df, marks, i + 1)

dataframe_with_selections(df, marks) == Marked(df, marks, 1)

----------------------------------------------------------------------------
(* get_airbnb_rating, lines 44-55 *)

RECURSIVE Sum(_)
Sum(ratings) == IF ratings = <<>> THEN 0 ELSE Head(ratings) + Sum(Tail(ratings))

\* np.average(np.array(ratings)): the mean as the fraction num/den; the mean
\* of no element is NaN, written 0/0
np_average(ratings) == [num |-> Sum(ratings), den |-> Len(ratings)]

\* float64 -> int64 conversion of NaN is undefined in C: x86-64 gives the
\* smallest int64, AArch64 gives 0.  TLC's integers are 32 bits wide,
\* so the smallest int64 is written as the smallest integer it can negate;
\* the script reads only the sign of the value (STAR * rating)
Int64Min == 0 - 2147483647
NaNCasts == {Int64Min, 0}

\* the mean rounded to the nearest integer instead of truncated
round_int64(mean) ==
    IF mean.den = 0 THEN NaNCasts
    ELSE {(2 * mean.num + mean.den) \div (2 * mean.den)}

\* .astype(int) on a float64 scalar: truncation toward zero; every value the
\* build can produce for NaN
astype_int64(mean) ==
    IF mean.den = 0 THEN NaNCasts
    ELSE IF mean.num >= 0 THEN {mean.num \div mean.den}
    ELSE {-((-mean.num) \div mean.den)}

\* Answers of api.get_reviews: the ratings of the reviews, or a failure
Unreachable == [ok |-> FALSE, reviews |-> <<>>]
Reviews(ratings) == [ok |-> TRUE, reviews |-> ratings]

\* Outcomes of get_airbnb_rating(listing_id) when api.get_reviews answers
\* `reply`: the value returned or the exception raised, and the ids passed to
\* the review service
get_airbnb_rating(listing_id, reply) ==
    LET cleaned == replace(str(listing_id), ".")
        id == DigitsToInt(cleaned)
    IN  IF ~IntParses(cleaned)
        THEN {[raised |-> "ValueError", value |-> 0, sent |-> <<>>]}
        ELSE IF ~reply.ok
        THEN {[raised |-> "ReviewServiceError", value |-> 0, sent |-> <<id>>]}
        ELSE {[raised |-> "none", value |-> v, sent |-> <<id>>] :
              v \in astype_int64(np_average(reply.reviews))}

\* the star emoji repeated: STAR * rating, empty for rating <= 0
STAR == "star"
Stars(rating) == IF rating > 0 THEN [i \in 1..rating |-> STAR] ELSE <<>>

----------------------------------------------------------------------------
(* The script run *)

NoCenter == <<>>

\* Display names the reverse geocoder can answer with
Addresses == {"Dam 1, Amsterdam"}
\* geolocator.reverse(coords): a location, None for no result, or an exception
GeoReplies == Addresses \cup {"None", "unreachable"}

\* Answers of the review service during a script run
RunReplies == {Unreachable, Reviews(<<>>), Reviews(<<4, 5, 5>>), Reviews(<<5, 5>>)}

NoOutcome == [raised |-> "pending", value |-> 0, sent |-> <<>>]

FreshRun ==
    /\ pc' = "load"
    /\ dataframe' = <<>>
    /\ selection' = <<>>
    /\ center' = NoCenter
    /\ addresses' = <<>>
    /\ r' = 0
    /\ location' = "unset"
    /\ sent' = <<>>
    /\ written' = <<>>
    /\ error' = "none"

Init ==
    /\ csv \in Files
    /\ max_budget = DefaultBudget
    /\ max_distance = DefaultDistance
    /\ pc = "load"
    /\ dataframe = <<>>
    /\ selection = <<>>
    /\ center = NoCenter
    /\ addresses = <<>>
    /\ r = 0
    /\ location = "unset"
    /\ sent = <<>>
    /\ written = <<>>
    /\ error = "none"
    /\ earlier = <<>>
    /\ rt_pc = "idle"
    /\ rt_id = PyInt(0)
    /\ rt_reply = Unreachable
    /\ rt_out = NoOutcome

\* A rerun that keeps the table of the run before and goes on at the filter,
\* as if the file were loaded once and filtered in place
RerunLoadedOnce ==
    /\ \E b \in Budgets, d \in Distances :
         /\ max_budget' = b
         /\ max_distance' = d
    /\ earlier' = <<max_budget, max_distance>>
    /\ pc' = IF pc = "load" THEN "load" ELSE "filter"
    /\ selection' = <<>>
    /\ center' = NoCenter
    /\ addresses' = <<>>
    /\ r' = 0
    /\ location' = "unset"
    /\ sent' = <<>>
    /\ written' = <<>>
    /\ error' = "none"
    /\ UNCHANGED <<csv, dataframe, rt_pc, rt_id, rt_reply, rt_out>>

\* The user changes a threshold or ticks a row: Streamlit reruns the script
\* from the top with the widgets' current values
Rerun ==
    /\ \E b \in Budgets, d \in Distances :
         /\ max_budget' = b
         /\ max_distance' = d
    /\ earlier' = <<max_budget, max_distance>>
    /\ FreshRun
    /\ UNCHANGED <<csv, rt_pc, rt_id, rt_reply, rt_out>>

\* lines 66-76
Load ==
    /\ pc = "load"
    /\ dataframe' = read_csv(csv)
    /\ pc' = "filter"
    /\ UNCHANGED <<csv, max_budget, max_distance, selection, center, addresses, r,
                   location, sent, written, error, earlier, rt_pc, rt_id,
                   rt_reply, rt_out>>

\* lines 138-140
Filter ==
    /\ pc = "filter"
    /\ dataframe' = filter(dataframe, max_budget, max_distance)
    /\ pc' = "format"
    /\ UNCHANGED <<csv, max_budget, max_distance, selection, center, addresses, r,
                   location, sent, written, error, earlier, rt_pc, rt_id,
                   rt_reply, rt_out>>

\* lines 143-149
Format ==
    /\ pc = "format"
    /\ dataframe' = format(dataframe)
    /\ pc' = "select"
    /\ UNCHANGED <<csv, max_budget, max_distance, selection, center, addresses, r,
                   location, sent, written, error, earlier, rt_pc, rt_id,
                   rt_reply, rt_out>>

\* line 151: the user's ticks are any set of rows of the table shown
Select ==
    /\ pc = "select"
    /\ \E marks \in SUBSET (1..Len(dataframe)) :
         selection' = dataframe_with_selections(dataframe, marks)
    /\ pc' = "map"
    /\ UNCHANGED <<csv, max_budget, max_distance, dataframe, center, addresses, r,
                   location, sent, written, error, earlier, rt_pc, rt_id,
                   rt_reply, rt_out>>

\* lines 155-169: dataframe.iloc[0] raises IndexError on an empty table
Map ==
    /\ pc = "map"
    /\ IF Len(dataframe) = 0
       THEN /\ error' = "IndexError"
            /\ pc' = "crashed"
            /\ UNCHANGED center
       ELSE /\ center' = <<dataframe[1].Latitude, dataframe[1].Longitude>>
            /\ pc' = "write"
            /\ UNCHANGED error
    /\ UNCHANGED <<csv, max_budget, max_distance, dataframe, selection, addresses, r,
                   location, sent, written, earlier, rt_pc, rt_id, rt_reply, rt_out>>

\* lines 171-176 and 29-31: nothing to enrich, or getLocationDisplayNameByDF
\* starts its loop
Write ==
    /\ pc = "write"
    /\ IF Len(selection) = 0
       THEN pc' = "done"
       ELSE pc' = "enrich"
    /\ addresses' = <<>>
    /\ r' = 0
    /\ written' = <<>>
    /\ UNCHANGED <<csv, max_budget, max_distance, dataframe, selection, center,
                   location, sent, error, earlier, rt_pc, rt_id, rt_reply, rt_out>>

\* lines 32-40, one iteration: reverse geocoding, then the rating, then the
\* record; any exception leaves the function and ends the run
EnrichRow ==
    /\ pc = "enrich"
    /\ r < Len(selection)
    /\ \E geo \in GeoReplies, reply \in RunReplies :
         IF geo = "unreachable"
         THEN /\ error' = "GeocoderServiceError"
              /\ pc' = "crashed"
              /\ UNCHANGED <<location, sent, addresses, r>>
         ELSE \E out \in get_airbnb_rating(selection[r + 1].id, reply) :
                /\ location' = geo
                /\ sent' = sent \o out.sent
                /\ IF out.raised # "none"
                   THEN /\ error' = out.raised
                        /\ pc' = "crashed"
                        /\ UNCHANGED <<addresses, r>>
                   ELSE IF geo = "None"
                   THEN /\ error' = "AttributeError"
                        /\ pc' = "crashed"
                        /\ UNCHANGED <<addresses, r>>
                   ELSE /\ addresses' = Append(addresses,
                               [id |-> selection[r + 1].id,
                                Rating |-> Stars(out.value),
                                Address |-> geo])
                        /\ r' = r + 1
                        /\ UNCHANGED <<error, pc>>
    /\ UNCHANGED <<csv, max_budget, max_distance, dataframe, selection, center,
                   written, earlier, rt_pc, rt_id, rt_reply, rt_out>>

\* lines 42 and 176-179: the table of records is returned and written
EnrichReturn ==
    /\ pc = "enrich"
    /\ r = Len(selection)
    /\ written' = addresses
    /\ pc' = "done"
    /\ UNCHANGED <<csv, max_budget, max_distance, dataframe, selection, center,
                   addresses, r, location, sent, error, earlier, rt_pc, rt_id,
                   rt_reply, rt_out>>

Next ==
    \/ Rerun
    \/ Load
    \/ Filter
    \/ Format
    \/ Select
    \/ Map
    \/ Write
    \/ EnrichRow
    \/ EnrichReturn

Spec == Init /\ [][Next]_vars

----------------------------------------------------------------------------
(* get_airbnb_rating on its own *)

Ratings == 1..5

ReviewLists == UNION { [1..k -> Ratings] : k \in 0..MaxReviews }

\* Listing ids a caller can pass: ints, and floats as read from the file
IdArgs == {PyInt(1), PyInt(2818), PyFloat(12, <<"3">>), PyFloat(2, <<>>)}

\* No script run is under way: the run variables rest
InitRating ==
    /\ csv = <<>>
    /\ max_budget = DefaultBudget
    /\ max_distance = DefaultDistance
    /\ pc = "done"
    /\ dataframe = <<>>
    /\ selection = <<>>
    /\ center = NoCenter
    /\ addresses = <<>>
    /\ r = 0
    /\ location = "unset"
    /\ sent = <<>>
    /\ written = <<>>
    /\ error = "none"
    /\ earlier = <<>>
    /\ rt_pc = "call"
    /\ rt_id \in IdArgs
    /\ rt_reply \in {Unreachable} \cup { Reviews(l) : l \in ReviewLists }
    /\ rt_out = NoOutcome

RatingCall ==
    /\ rt_pc = "call"
    /\ rt_out' \in get_airbnb_rating(rt_id, rt_reply)
    /\ rt_pc' = "returned"
    /\ UNCHANGED <<csv, max_budget, max_distance, pc, dataframe, selection, center,
                   addresses, r, location, sent, written, error, earlier, rt_id,
                   rt_reply>>

NextRating == RatingCall

SpecRating == InitRating /\ [][NextRating]_vars

----------------------------------------------------------------------------
(* Properties *)

\* The table as loaded from the file
Loaded == read_csv(csv)

\* The loaded row a table row comes from, found by its index label
LoadedRow(row) == Loaded[row.index + 1]

\* A loaded row is within the current thresholds
Within(row) == le(row.Price, max_budget) /\ row.Dist <= max_distance

Labels(df) == { df[i].index : i \in 1..Len(df) }

Ascending(df) == \A i, j \in 1..Len(df) : i < j => df[i].index < df[j].index

\* C1: the Filter Stage keeps exactly the rows with price <= max_price and
\* distance <= max_distance, both inclusive, in the order of the table: right
\* after lines 138-140 every row of the table is a loaded row within the
\* thresholds, every loaded row within the thresholds is in the table, and the
\* index labels ascend.
C1_FilterKeepsExactly ==
    pc = "format" =>
        /\ \A i \in 1..Len(dataframe) :
             /\ dataframe[i].index \in 0..(Len(Loaded) - 1)
             /\ dataframe[i] = LoadedRow(dataframe[i])
             /\ le(dataframe[i].Price, max_budget)
             /\ dataframe[i].Dist <= max_distance
        /\ \A j \in 1..Len(Loaded) :
             Within(Loaded[j]) => Loaded[j].index \in Labels(dataframe)
        /\ Ascending(dataframe)

\* C1 witness: the filter has run on a table of three rows, keeping a row whose
\* price and distance equal the thresholds and another row, and dropping one.
C1_Witness ==
    /\ pc = "format"
    /\ Len(Loaded) = 3
    /\ Len(dataframe) = 2
    /\ \E i \in 1..2 : /\ dataframe[i].Price = PyFloat(max_budget, <<>>)
                       /\ dataframe[i].Dist = max_distance

\* The run is over and went through the enrichment of a non-empty selection
EnrichmentEnded ==
    /\ pc \in {"done", "crashed"}
    /\ selection # <<>>
    /\ error # "IndexError"

\* C2: a failure of the geocoding or rating adapter for one selected row does
\* not stop the other rows: when the enrichment pass is over, a table with one
\* record per selected row has been returned and written.
C2_Claim == EnrichmentEnded => pc = "done" /\ Len(written) = Len(selection)

\* C3: get_airbnb_rating on an empty review set raises an explicit "no
\* reviews" condition instead of returning a rating.
C3_Claim ==
    (rt_pc = "returned" /\ rt_reply = Reviews(<<>>)) =>
        rt_out.raised = "NoReviewsError"

\* C4: when the geocoder has no result for a row and the rating is there, no
\* exception is raised and the row's record has an empty address.
C4_Claim ==
    (location = "None" /\ error \notin {"ReviewServiceError", "ValueError"}) =>
        /\ error = "none"
        /\ r > 0
        /\ addresses[r].Address = ""

\* C5: for a non-empty list of ratings get_airbnb_rating returns the mean
\* truncated to an integer: the greatest v with v * count <= sum.  [4,5,5]
\* gives 4 and [5,5] gives 5.
C5_Truncates ==
    (rt_pc = "returned" /\ rt_reply.ok /\ rt_reply.reviews # <<>>) =>
        /\ rt_out.raised = "none"
        /\ rt_out.value * Len(rt_reply.reviews) <= Sum(rt_reply.reviews)
        /\ Sum(rt_reply.reviews) < (rt_out.value + 1) * Len(rt_reply.reviews)
        /\ rt_reply.reviews = <<4, 5, 5>> => rt_out.value = 4
        /\ rt_reply.reviews = <<5, 5>> => rt_out.value = 5

\* C5 witness: the call returned 4 for the reviews [4,5,5], whose mean is 4.67.
C5_Witness ==
    /\ rt_pc = "returned"
    /\ rt_reply = Reviews(<<4, 5, 5>>)
    /\ rt_out.raised = "none"
    /\ rt_out.value = 4

\* C6: assemble returns one record per selected row, in the order of the
\* selection, each with the listing id of the row at its position, whatever
\* the adapters do.
C6_Claim ==
    EnrichmentEnded =>
        /\ Len(written) = Len(selection)
        /\ \A i \in 1..Len(selection) : written[i].id = selection[i].id

\* The table has left the Filter Stage and been handed to Selection Capture
Handed == pc \in {"select", "map", "write", "enrich", "done", "crashed"}

IdText(id) == Digits(id.n) \o (IF id.frac = <<>> THEN <<>> ELSE <<".">> \o id.frac)

\* C8: the id passed to the review service is the integer formed by the digits
\* of the listing id, formatting characters removed (12.3 is sent as 123): the
\* i-th id sent is that of the i-th selected row's listing id in the file.
C8_Claim ==
    \A i \in 1..Len(sent) :
        sent[i] = DigitsToInt(SelectSeq(IdText(csv[selection[i].index + 1].id),
                                        IsDigit))

\* C9: when the filtered table is empty the run completes: no exception, an
\* empty selection, nothing enriched.
C9_Claim ==
    (pc \in {"done", "crashed"} /\ dataframe = <<>>) =>
        /\ pc = "done"
        /\ error = "none"
        /\ selection = <<>>
        /\ written = <<>>

\* C10: whatever the runs before, the table of this run holds exactly the
\* loaded rows within the current thresholds, a run starts with no table,
\* selection or record of the run before, and the selection and the records
\* are drawn from this run's table.
C10_OnlyCurrentThresholds ==
    /\ pc \notin {"load", "filter"} =>
         /\ Labels(dataframe) = { Loaded[j].index : j \in { k \in 1..Len(Loaded) :
                                                            Within(Loaded[k]) } }
         /\ Ascending(dataframe)
         /\ \A i \in 1..Len(selection) :
              \E j \in 1..Len(dataframe) : selection[i] = dataframe[j]
         /\ \A i \in 1..Len(addresses) : addresses[i].id = selection[i].id
    /\ pc = "format" => dataframe = SelectSeq(Loaded, Within)
    /\ pc = "load" =>
         /\ dataframe = <<>>
         /\ selection = <<>>
         /\ addresses = <<>>
         /\ written = <<>>

\* C10 witness: the run before had the budget 0, this run has 150, and its
\* table holds three rows, one of them above the default budget.
C10_Witness ==
    /\ pc = "format"
    /\ earlier # <<>>
    /\ earlier[1] = 0
    /\ max_budget = 150
    /\ Len(dataframe) = 3
    /\ \E i \in 1..3 : dataframe[i].Price = PyFloat(150, <<>>)

====
